---- MODULE Spec2Model ----
(***************************************************************************)
(* askaiquestions-2api (Bun edition): an OpenAI-compatible gateway in      *)
(* front of a summarisation backend (src/index.ts).                        *)
(*                                                                         *)
(* The model follows JavaScript's run-to-completion scheduling: the code   *)
(* between two awaits of one request runs without interleaving.  The       *)
(* variable `running` names the request whose synchronous segment is being *)
(* executed (0: the event loop is idle and may pick any resumable request  *)
(* or deliver an external event).                                          *)
(*                                                                         *)
(* Strings are TLA+ strings; a text is sliced with SubSeq exactly as       *)
(* String.prototype.substring slices it.                                   *)
(***************************************************************************)
EXTENDS Integers, Sequences, FiniteSets, TLC

(***************************************************************************)
(* Bounds of the model.                                                    *)
(***************************************************************************)
\* longest upstream text explored
MaxLen == 4
\* largest configured PSEUDO_STREAM_CHUNK_SIZE explored
MaxChunk == 2
\* cap on the events of one stream when the slice size is below 1 (the
\* emission loop then never ends by itself)
MaxEvents == 3

\* the inbound requests in flight, numbered in arrival order
Reqs == {1, 2}

Alphabet == "abcdefgh"
Texts == { SubSeq(Alphabet, 1, n) : n \in 0..MaxLen }

Min(a, b) == IF a <= b THEN a ELSE b
Max(a, b) == IF a >= b THEN a ELSE b

\* whether string t occurs in string s
Contains(s, t) ==
  \E k \in 0..(Len(s) - Len(t)) : SubSeq(s, k + 1, k + Len(t)) = t

(***************************************************************************)
(* Configuration (read once at start-up).                                  *)
(***************************************************************************)
\* process.env.API_MASTER_KEY || "default-unsafe-key"
API_MASTER_KEY == "default-unsafe-key"
DEFAULT_MODEL == "askai-default-model"

\* what process.env.PSEUDO_STREAM_CHUNK_SIZE may hold: unset, or a decimal
\* numeral (here -1 .. MaxChunk)
ChunkSizeEnv == {"unset"} \cup { ToString(n) : n \in (-1)..MaxChunk }
\* what process.env.PSEUDO_STREAM_DELAY_MS may hold
DelayEnv == {"unset", "0"}

\* the value of one decimal digit
Digit(c) ==
  CASE c = "0" -> 0 [] c = "1" -> 1 [] c = "2" -> 2 [] c = "3" -> 3
    [] c = "4" -> 4 [] c = "5" -> 5 [] c = "6" -> 6 [] c = "7" -> 7
    [] c = "8" -> 8 [] c = "9" -> 9

\* parseInt on a decimal numeral with an optional leading minus sign
parseInt(s) ==
  LET neg == Len(s) > 0 /\ SubSeq(s, 1, 1) = "-"
      digits == IF neg THEN SubSeq(s, 2, Len(s)) ELSE s
      val[k \in 0..Len(digits)] ==
        IF k = 0 THEN 0 ELSE 10 * val[k - 1] + Digit(SubSeq(digits, k, k))
  IN  IF neg THEN 0 - val[Len(digits)] ELSE val[Len(digits)]

\* env || "2"
OrDefault2(env) == IF env = "unset" \/ env = "" THEN "2" ELSE env

MakeConfig(chunkEnv, delayEnv) ==
  [ PSEUDO_STREAM_CHUNK_SIZE |-> parseInt(OrDefault2(chunkEnv)),
    PSEUDO_STREAM_DELAY_MS   |-> parseInt(OrDefault2(delayEnv)) ]

(***************************************************************************)
(* Inbound requests.                                                       *)
(***************************************************************************)
Methods == {"GET", "POST", "OPTIONS"}
Paths == {"/", "/v1/models", "/v1/chat/completions", "/v1/unknown", "/unknown"}
\* the Authorization header; "" stands for an absent header
AuthHeaders == {"", "Basic " \o API_MASTER_KEY, "Bearer wrong-key",
                "Bearer " \o API_MASTER_KEY}

NoRequest == [method |-> "", path |-> "", auth |-> ""]
Requests == [method : Methods, path : Paths, auth : AuthHeaders]

\* the request body as request.json() sees it
NoData == [json |-> "none", messages |-> "absent", stream |-> "absent", model |-> ""]
Bodies ==
  { [json |-> "malformed", messages |-> "absent", stream |-> "absent", model |-> ""],
    [json |-> "null", messages |-> "absent", stream |-> "absent", model |-> ""] }
  \cup [json : {"object"}, messages : {"absent", "empty", "nonempty"},
        stream : {"absent", "false", "true"}, model : {"", "gpt-4"}]

\* String.prototype.startsWith
StartsWith(s, p) == Len(s) >= Len(p) /\ SubSeq(s, 1, Len(p)) = p

\* the authentication test of handleApiProxy: TRUE when the request is let in
AuthorizedAnyBearer(authHeader) ==
  authHeader # "" /\ StartsWith(authHeader, "Bearer ")
Authorized(authHeader) ==
  ~ ( \/ authHeader = ""
      \/ ~ StartsWith(authHeader, "Bearer ")
      \/ SubSeq(authHeader, 8, Len(authHeader)) # API_MASTER_KEY )

(***************************************************************************)
(* Responses.                                                              *)
(***************************************************************************)
NoResponse ==
  [ status |-> 0, contentType |-> "", xRequestId |-> 0, object |-> "none",
    message |-> "", type |-> "", code |-> "", id |-> 0, model |-> "",
    content |-> "", finish_reason |-> "", usage |-> << >> ]

\* errorResponse(message, status, code, headers); xrid is the X-Request-ID of
\* the headers passed in (0 when the default `new Headers()` is used)
errorResponse(message, status, code, xrid) ==
  [ NoResponse EXCEPT !.status = status, !.contentType = "application/json",
      !.xRequestId = xrid, !.object = "error", !.message = message,
      !.type = "api_error", !.code = code ]

\* new Response(null, {status: 204, headers})
preflightResponse(xrid) ==
  [ NoResponse EXCEPT !.status = 204, !.contentType = "application/json",
      !.xRequestId = xrid, !.object = "empty" ]

healthResponse ==
  [ NoResponse EXCEPT !.status = 200, !.contentType = "application/json",
      !.object = "health" ]

handleModels(xrid) ==
  [ NoResponse EXCEPT !.status = 200, !.contentType = "application/json",
      !.xRequestId = xrid, !.object = "list" ]

\* usage: { prompt_tokens: 0, completion_tokens: 0, total_tokens: 0 }
ZeroUsage == << 0, 0, 0 >>

\* the non-streaming completion object
completionResponse(summary, requestId, model) ==
  [ NoResponse EXCEPT !.status = 200, !.contentType = "application/json",
      !.xRequestId = requestId, !.object = "chat.completion",
      !.id = requestId, !.model = model, !.content = summary,
      !.finish_reason = "stop", !.usage = ZeroUsage ]

\* new Response(stream, {headers}) with the event-stream headers
streamResponse(requestId) ==
  [ NoResponse EXCEPT !.status = 200, !.contentType = "text/event-stream",
      !.xRequestId = requestId, !.object = "stream" ]

(***************************************************************************)
(* The upstream's possible answers to one call.                            *)
(***************************************************************************)
NoUpstream ==
  [ reject |-> FALSE, status |-> 0, text |-> "", json |-> "none",
    summaryType |-> "undefined", summary |-> "" ]
UpstreamOutcomes ==
  \* transport failure: fetch() rejects
  { [NoUpstream EXCEPT !.reject = TRUE] }
  \* non-success status with a diagnostic body
  \cup { [NoUpstream EXCEPT !.status = s, !.text = "boom"] : s \in {500, 503} }
  \* success status, body not JSON
  \cup { [NoUpstream EXCEPT !.status = 200, !.text = "<html>", !.json = "invalid"] }
  \* success status, JSON without a string `summary`
  \cup { [NoUpstream EXCEPT !.status = 200, !.json = "object", !.summaryType = t]
           : t \in {"undefined", "number"} }
  \* success status, JSON with the text
  \cup { [NoUpstream EXCEPT !.status = 200, !.json = "object",
            !.summaryType = "string", !.summary = t] : t \in Texts }

\* Response.ok
Ok(status) == status \in 200..299

\* the code of the 502 answer to a non-success upstream status
UpstreamCodeFixed(status) == "upstream_error"
UpstreamCode(status) == "upstream_" \o ToString(status)

(***************************************************************************)
(* State.                                                                  *)
(***************************************************************************)
VARIABLES
  CONFIG,        \* the configuration object built at start-up
  request,       \* request[r]: method, path and Authorization of request r
  requestData,   \* requestData[r]: the parsed body (handleChatCompletions)
  upstream,      \* upstream[r]: what the upstream answered to r's call
  upstreamCalls, \* upstreamCalls[r]: number of fetch(UPSTREAM_URL) calls of r
  upstreamRequest, \* upstreamRequest[r]: what r's call sent to the upstream
  response,      \* response[r]: the HTTP response returned for r
  pc,            \* pc[r]: where request r's handler stands
  stream,        \* stream[r]: the ReadableStream of createPseudoStream
  running        \* the request whose synchronous segment runs (0: none)

vars == << CONFIG, request, requestData, upstream, upstreamCalls,
           upstreamRequest, response, pc, stream, running >>

\* one enqueued server-sent event: a JSON chunk, or the [DONE] marker
Chunk(id, model, hasContent, content, finish) ==
  [ kind |-> "chunk", id |-> id, model |-> model, hasContent |-> hasContent,
    content |-> content, finish_reason |-> finish ]
DoneMarker ==
  [ kind |-> "done", id |-> 0, model |-> "", hasContent |-> FALSE,
    content |-> "", finish_reason |-> "" ]

\* no upstream call made
NoUpstreamRequest == [ xRequestId |-> 0, messages |-> "absent" ]

NoStream ==
  [ state |-> "none", fullText |-> "", i |-> 0, enqueued |-> << >>,
    closeRequested |-> FALSE, disconnected |-> FALSE, faulted |-> FALSE,
    model |-> "" ]

Init ==
  /\ CONFIG \in { MakeConfig(c, d) : c \in ChunkSizeEnv, d \in DelayEnv }
  /\ request = [r \in Reqs |-> NoRequest]
  /\ requestData = [r \in Reqs |-> NoData]
  /\ upstream = [r \in Reqs |-> NoUpstream]
  /\ upstreamCalls = [r \in Reqs |-> 0]
  /\ upstreamRequest = [r \in Reqs |-> NoUpstreamRequest]
  /\ response = [r \in Reqs |-> NoResponse]
  /\ pc = [r \in Reqs |-> "idle"]
  /\ stream = [r \in Reqs |-> NoStream]
  /\ running = 0

(***************************************************************************)
(* Gateway dispatcher.                                                     *)
(***************************************************************************)
\* the routing decision of handleApiProxy for an authenticated request
routeAuthenticated(req) ==
  IF req.path = "/v1/models" /\ req.method = "GET" THEN "models"
  ELSE IF req.path = "/v1/chat/completions" /\ req.method = "POST" THEN "chat"
  ELSE "method_not_allowed"

\* handleApiProxy: preflight, then authentication, then routing
handleApiProxyRouteFirst(req) ==
  IF req.method = "OPTIONS" THEN "preflight"
  ELSE IF routeAuthenticated(req) = "method_not_allowed" THEN "method_not_allowed"
  ELSE IF ~ Authorized(req.auth) THEN "unauthorized"
  ELSE routeAuthenticated(req)
handleApiProxy(req) ==
  IF req.method = "OPTIONS" THEN "preflight"
  ELSE IF ~ Authorized(req.auth) THEN "unauthorized"
  ELSE routeAuthenticated(req)

\* the fetch handler of Bun.serve
dispatch(req) ==
  IF StartsWith(req.path, "/v1/") THEN handleApiProxy(req)
  ELSE IF req.path = "/" THEN "health"
  ELSE "not_found"

\* the response of every dispatch outcome that answers at once
immediateResponse(req, requestId) ==
  CASE dispatch(req) = "preflight" -> preflightResponse(requestId)
    [] dispatch(req) = "unauthorized" ->
         errorResponse("Unauthorized", 401, "invalid_api_key", requestId)
    [] dispatch(req) = "models" -> handleModels(requestId)
    [] dispatch(req) = "method_not_allowed" ->
         errorResponse("Method " \o req.method \o " not allowed for " \o req.path,
                       405, "method_not_allowed", requestId)
    [] dispatch(req) = "health" -> healthResponse
    [] dispatch(req) = "not_found" ->
         errorResponse("Path not found: " \o req.path, 404, "not_found", 0)

\* A request arrives and the fetch handler runs up to its first suspension:
\* it answers at once, or reaches `await request.json()`.
Fetch(r) ==
  /\ running = 0
  /\ pc[r] = "idle"
  /\ \A q \in Reqs : q < r => pc[q] # "idle"
  /\ \E req \in Requests :
       /\ request' = [request EXCEPT ![r] = req]
       /\ IF dispatch(req) = "chat"
          THEN /\ pc' = [pc EXCEPT ![r] = "json"]
               /\ UNCHANGED response
          ELSE /\ pc' = [pc EXCEPT ![r] = "done"]
               /\ response' = [response EXCEPT ![r] = immediateResponse(req, r)]
  /\ UNCHANGED << CONFIG, requestData, upstream, upstreamCalls,
                  upstreamRequest, stream, running >>

\* requestData.stream || false
isStreamWhenPresent(data) == data.stream # "absent"
isStream(data) == data.stream = "true"
\* requestData.model || CONFIG.DEFAULT_MODEL
modelOfAlwaysDefault(data) == DEFAULT_MODEL
modelOf(data) == IF data.model = "" THEN DEFAULT_MODEL ELSE data.model

\* upstreamPayload.messages.length === 0, with messages: requestData.messages || []
messagesEmptyOnlyMissing(data) == data.messages = "absent"
messagesEmpty(data) == data.messages \in {"absent", "empty"}

\* the answer to a body that request.json() cannot parse
invalidJsonUncaught(requestId) ==
  errorResponse("Internal Server Error: JSON Parse error", 500,
                "internal_server_error", 0)
invalidJsonResponse(requestId) ==
  errorResponse("Invalid JSON body", 400, "invalid_request_error", requestId)

\* the answer to a body without messages
missingMessagesResponse(requestId) ==
  errorResponse("Missing 'messages' field", 400, "invalid_request_error",
                requestId)

\* the upstream call: headers and payload of fetch(CONFIG.UPSTREAM_URL, ...)
upstreamCall(data, requestId) ==
  [ xRequestId |-> requestId, messages |-> data.messages ]

\* the number of upstream calls after `await fetch(CONFIG.UPSTREAM_URL, ...)`
fetchUpstreamWithRetry(calls) == calls + 2
fetchUpstream(calls) == calls + 1

\* request.json() settles and handleChatCompletions runs up to the upstream
\* fetch: it answers 400 (or fails) or issues the one upstream call.
ParseBody(r) ==
  /\ running = 0
  /\ pc[r] = "json"
  /\ \E data \in Bodies :
       /\ requestData' = [requestData EXCEPT ![r] = data]
       /\ CASE data.json = "malformed" ->
                 /\ response' = [response EXCEPT ![r] = invalidJsonResponse(r)]
                 /\ pc' = [pc EXCEPT ![r] = "done"]
                 /\ UNCHANGED << upstreamCalls, upstreamRequest >>
            [] data.json = "null" ->
                 \* requestData.stream throws a TypeError outside the try block;
                 \* the fetch handler's catch answers with fresh headers
                 /\ response' = [response EXCEPT ![r] =
                      errorResponse("Internal Server Error: null is not an object",
                                    500, "internal_server_error", 0)]
                 /\ pc' = [pc EXCEPT ![r] = "done"]
                 /\ UNCHANGED << upstreamCalls, upstreamRequest >>
            [] data.json = "object" /\ messagesEmpty(data) ->
                 /\ response' = [response EXCEPT ![r] =
                                   missingMessagesResponse(r)]
                 /\ pc' = [pc EXCEPT ![r] = "done"]
                 /\ UNCHANGED << upstreamCalls, upstreamRequest >>
            [] data.json = "object" /\ ~ messagesEmpty(data) ->
                 /\ upstreamCalls' = [upstreamCalls EXCEPT ![r] = fetchUpstream(@)]
                 /\ upstreamRequest' = [upstreamRequest EXCEPT ![r] =
                                          upstreamCall(data, r)]
                 /\ pc' = [pc EXCEPT ![r] = "fetch"]
                 /\ UNCHANGED response
  /\ UNCHANGED << CONFIG, request, upstream, stream, running >>

(***************************************************************************)
(* Upstream client and failure mapping (handleChatCompletions).            *)
(***************************************************************************)
\* the upstream answered with a success status and a string `summary`
upstreamSucceeded(out) ==
  /\ ~ out.reject
  /\ Ok(out.status)
  /\ out.json = "object"
  /\ out.summaryType = "string"

\* the 502 answers of handleChatCompletions
upstreamFailureResponse(out, requestId) ==
  IF out.reject
    THEN \* fetch() rejected: caught by the handler's catch
         errorResponse("Processing failed: " \o "Unable to connect", 502,
                       "api_error", requestId)
  ELSE IF ~ Ok(out.status)
    THEN errorResponse("Upstream error: " \o out.text, 502,
                       UpstreamCode(out.status), requestId)
  ELSE IF out.json = "invalid"
    THEN \* upstreamResponse.json() threw: caught by the handler's catch
         errorResponse("Processing failed: " \o "JSON Parse error", 502,
                       "api_error", requestId)
  ELSE \* typeof summary !== 'string': thrown and caught by the handler's catch
       errorResponse("Processing failed: "
                       \o "Upstream response missing 'summary' field.", 502,
                     "api_error", requestId)

\* new ReadableStream({start}) over the text, before start() has run
newStream(fullText, model) ==
  [ NoStream EXCEPT !.state = "readable", !.fullText = fullText,
      !.model = model ]

\* The upstream call settles and handleChatCompletions runs on: a 502, the
\* completion object, or the stream, whose start() begins at once.
UpstreamReply(r) ==
  /\ running = 0
  /\ pc[r] = "fetch"
  /\ \E out \in UpstreamOutcomes :
       /\ upstream' = [upstream EXCEPT ![r] = out]
       /\ CASE ~ upstreamSucceeded(out) ->
                 /\ response' = [response EXCEPT ![r] =
                                   upstreamFailureResponse(out, r)]
                 /\ pc' = [pc EXCEPT ![r] = "done"]
                 /\ UNCHANGED << stream, running >>
            [] upstreamSucceeded(out) /\ isStream(requestData[r]) ->
                 /\ stream' = [stream EXCEPT ![r] =
                                 newStream(out.summary, modelOf(requestData[r]))]
                 /\ response' = [response EXCEPT ![r] = streamResponse(r)]
                 /\ pc' = [pc EXCEPT ![r] = "loop"]
                 /\ running' = r
            [] upstreamSucceeded(out) /\ ~ isStream(requestData[r]) ->
                 /\ response' = [response EXCEPT ![r] =
                      completionResponse(out.summary, r, modelOf(requestData[r]))]
                 /\ pc' = [pc EXCEPT ![r] = "done"]
                 /\ UNCHANGED << stream, running >>
  /\ UNCHANGED << CONFIG, request, requestData, upstreamCalls, upstreamRequest >>

(***************************************************************************)
(* Pseudo-stream emitter (createPseudoStream).                             *)
(***************************************************************************)
\* String.prototype.substring(start, end): both indices are clamped to
\* [0, length] and swapped when start > end
substringInclusiveEnd(s, start, end) ==
  LET a == Max(0, Min(start, Len(s)))
      b == Max(0, Min(end + 1, Len(s)))
  IN  SubSeq(s, Min(a, b) + 1, Max(a, b))
substring(s, start, end) ==
  LET a == Max(0, Min(start, Len(s)))
      b == Max(0, Min(end, Len(s)))
  IN  SubSeq(s, Min(a, b) + 1, Max(a, b))

\* i += chunkSize
nextCursorSkipping(i, chunkSize) == i + chunkSize + 1
nextCursor(i, chunkSize) == i + chunkSize

\* the loop condition i < fullText.length
loopCondition(i, fullText) == i < Len(fullText)

\* ReadableStreamDefaultControllerCanCloseOrEnqueue: enqueue() and close()
\* throw a TypeError otherwise
CanCloseOrEnqueue(st) == st.state = "readable" /\ ~ st.closeRequested

contentChunkSharedId(st, requestId, chunkSize) ==
  Chunk(1, st.model, TRUE,
        SubSeq(st.fullText, st.i + 1, Min(st.i + chunkSize, Len(st.fullText))),
        "null")
contentChunk(st, requestId, chunkSize) ==
  Chunk(requestId, st.model, TRUE,
        substring(st.fullText, st.i, st.i + chunkSize), "null")
finalChunk(st, requestId) == Chunk(requestId, st.model, FALSE, "", "stop")
errorChunk(st, requestId) ==
  Chunk(requestId, st.model, TRUE, "\n[Stream Error]", "stop")

\* the two events that end a stream, in the order they are enqueued
finalEventsMarkerFirst(st, requestId) == << DoneMarker, finalChunk(st, requestId) >>
finalEvents(st, requestId) == << finalChunk(st, requestId), DoneMarker >>

enqueue(st, event) == [st EXCEPT !.enqueued = Append(@, event)]

\* One iteration of the for loop: slice, enqueue, then the pacing delay.
\* `fault` is an exception raised inside the try block by the runtime.
EmitSlice(r) ==
  /\ running = r
  /\ pc[r] = "loop"
  /\ loopCondition(stream[r].i, stream[r].fullText)
  /\ CONFIG.PSEUDO_STREAM_CHUNK_SIZE >= 1 \/ Len(stream[r].enqueued) < MaxEvents
  /\ \E fault \in BOOLEAN :
       LET st == stream[r]
           chunkSize == CONFIG.PSEUDO_STREAM_CHUNK_SIZE
           delay == CONFIG.PSEUDO_STREAM_DELAY_MS
           sent == enqueue(st, contentChunk(st, r, chunkSize))
       IN  IF fault \/ ~ CanCloseOrEnqueue(st)
             THEN /\ stream' = [stream EXCEPT ![r].faulted = TRUE]
                  /\ pc' = [pc EXCEPT ![r] = "catch"]
                  /\ UNCHANGED running
           ELSE IF delay > 0
             THEN /\ stream' = [stream EXCEPT ![r] = sent]
                  /\ pc' = [pc EXCEPT ![r] = "sleep"]
                  /\ running' = 0
           ELSE /\ stream' = [stream EXCEPT ![r] =
                                [sent EXCEPT !.i = nextCursor(st.i, chunkSize)]]
                /\ UNCHANGED << pc, running >>
  /\ UNCHANGED << CONFIG, request, requestData, upstream, upstreamCalls,
                  upstreamRequest, response >>

\* The pacing timer fires: the loop resumes with its increment.
TimerFire(r) ==
  /\ running = 0
  /\ pc[r] = "sleep"
  /\ stream' = [stream EXCEPT ![r].i =
                  nextCursor(@, CONFIG.PSEUDO_STREAM_CHUNK_SIZE)]
  /\ pc' = [pc EXCEPT ![r] = "loop"]
  /\ running' = r
  /\ UNCHANGED << CONFIG, request, requestData, upstream, upstreamCalls,
                  upstreamRequest, response >>

\* After the loop: the stop chunk, then the [DONE] marker.  faultAt is the
\* enqueue (1 or 2) at which the runtime raises an exception, 0 for none.
EmitFinal(r) ==
  /\ running = r
  /\ pc[r] = "loop"
  /\ ~ loopCondition(stream[r].i, stream[r].fullText)
  /\ \E faultAt \in 0..2 :
       LET st == stream[r]
           first == enqueue(st, finalEvents(st, r)[1])
           second == enqueue(first, finalEvents(st, r)[2])
       IN  IF faultAt = 1 \/ ~ CanCloseOrEnqueue(st)
             THEN /\ stream' = [stream EXCEPT ![r].faulted = TRUE]
                  /\ pc' = [pc EXCEPT ![r] = "catch"]
           ELSE IF faultAt = 2
             THEN /\ stream' = [stream EXCEPT ![r] = [first EXCEPT !.faulted = TRUE]]
                  /\ pc' = [pc EXCEPT ![r] = "catch"]
           ELSE /\ stream' = [stream EXCEPT ![r] = second]
                /\ pc' = [pc EXCEPT ![r] = "finally"]
  /\ UNCHANGED << CONFIG, request, requestData, upstream, upstreamCalls,
                  upstreamRequest,
                  response, running >>

\* The catch block: one error chunk, unless that enqueue throws as well (the
\* exception then leaves start() after the finally block).
CatchError(r) ==
  /\ running = r
  /\ pc[r] = "catch"
  /\ \E fault \in BOOLEAN :
       LET st == stream[r] IN
       IF fault \/ ~ CanCloseOrEnqueue(st)
         THEN UNCHANGED stream
         ELSE stream' = [stream EXCEPT ![r] = enqueue(st, errorChunk(st, r))]
  /\ pc' = [pc EXCEPT ![r] = "finally"]
  /\ UNCHANGED << CONFIG, request, requestData, upstream, upstreamCalls,
                  upstreamRequest,
                  response, running >>

\* controller.close() on a stream that can be closed
close(st) == [st EXCEPT !.state = "closed", !.closeRequested = TRUE]

\* The finally block: controller.close(), which throws when the stream was
\* cancelled; start() has then ended either way.
FinallyClose(r) ==
  /\ running = r
  /\ pc[r] = "finally"
  /\ stream' = [stream EXCEPT ![r] =
                  IF CanCloseOrEnqueue(@) THEN close(@) ELSE @]
  /\ pc' = [pc EXCEPT ![r] = "done"]
  /\ running' = 0
  /\ UNCHANGED << CONFIG, request, requestData, upstream, upstreamCalls,
                  upstreamRequest, response >>

\* The client of a streaming response goes away while the emitter is suspended:
\* the runtime cancels the stream.  The underlying source has no cancel()
\* callback, so the emitter is not told and its timer stays armed.
cancel(st) == [st EXCEPT !.state = "closed", !.disconnected = TRUE]

Disconnect(r) ==
  /\ running = 0
  /\ pc[r] = "sleep"
  /\ stream[r].state = "readable"
  /\ stream' = [stream EXCEPT ![r] = cancel(@)]
  /\ UNCHANGED << CONFIG, request, requestData, upstream, upstreamCalls,
                  upstreamRequest,
                  response, pc, running >>

Next ==
  \E r \in Reqs :
    \/ Fetch(r)
    \/ ParseBody(r)
    \/ UpstreamReply(r)
    \/ EmitSlice(r)
    \/ TimerFire(r)
    \/ EmitFinal(r)
    \/ CatchError(r)
    \/ FinallyClose(r)
    \/ Disconnect(r)

Spec == Init /\ [][Next]_vars

\* The event loop runs every continuation that is ready and every armed timer
\* fires: the steps of an emitter are taken when they stay enabled.  Nothing
\* forces a client to send a request or a body, the upstream to answer, or a
\* client to disconnect.
EmitterFairness ==
  \A r \in Reqs :
    /\ WF_vars(EmitSlice(r))
    /\ WF_vars(TimerFire(r))
    /\ WF_vars(EmitFinal(r))
    /\ WF_vars(CatchError(r))
    /\ WF_vars(FinallyClose(r))

FairSpec == Spec /\ EmitterFairness

(***************************************************************************)
(* Vocabulary of the properties.                                           *)
(***************************************************************************)
\* request r has a stream (createPseudoStream was called for it)
HasStream(r) == stream[r].state # "none"

\* start() of r's stream has returned or thrown for good
EmissionOver(r) == HasStream(r) /\ pc[r] = "done"

\* no exception was raised during r's emission and its client stayed connected
FaultFree(r) == ~ stream[r].faulted /\ ~ stream[r].disconnected

IsStop(e) == e.kind = "chunk" /\ e.finish_reason = "stop"
IsDone(e) == e.kind = "done"
\* a chunk that carries delta.content
IsContent(e) == e.kind = "chunk" /\ e.hasContent
\* a content chunk of the emission loop (finish_reason null)
IsSlice(e) == IsContent(e) /\ e.finish_reason = "null"
IsError(e) == IsContent(e) /\ e.content = "\n[Stream Error]"

ContentChunks(r) == SelectSeq(stream[r].enqueued, IsContent)

\* the delta.content fields of a sequence of events, concatenated in order
RECURSIVE Concat(_)
Concat(events) ==
  IF events = << >> THEN ""
  ELSE Head(events).content \o Concat(Tail(events))

\* how many events of r's stream satisfy Test
Count(r, Test(_)) == Len(SelectSeq(stream[r].enqueued, Test))

CeilDiv(n, c) == (n + c - 1) \div c

(***************************************************************************)
(* C1: for every non-empty text T and slice size C >= 1, a fault-free      *)
(* emission enqueues content chunks whose delta.content, concatenated in   *)
(* emission order, is T exactly, and there are ceil(len(T)/C) of them;     *)
(* "abcd" with C = 2 gives "ab" then "cd".                                 *)
(***************************************************************************)
C1_LosslessSlicing ==
  \A r \in Reqs :
    ( /\ EmissionOver(r)
      /\ FaultFree(r)
      /\ stream[r].fullText # ""
      /\ CONFIG.PSEUDO_STREAM_CHUNK_SIZE >= 1 )
    => /\ Concat(ContentChunks(r)) = stream[r].fullText
       /\ Len(ContentChunks(r)) =
            CeilDiv(Len(stream[r].fullText), CONFIG.PSEUDO_STREAM_CHUNK_SIZE)
       /\ \A k \in 1..Len(ContentChunks(r)) : ContentChunks(r)[k].content # ""
       /\ ( stream[r].fullText = "abcd" /\ CONFIG.PSEUDO_STREAM_CHUNK_SIZE = 2
            => /\ ContentChunks(r)[1].content = "ab"
               /\ ContentChunks(r)[2].content = "cd" )

\* a fault-free emission of a three-character text in slices of two is over:
\* two content chunks, the last one shorter
C1_Witness ==
  \E r \in Reqs :
    /\ EmissionOver(r)
    /\ FaultFree(r)
    /\ stream[r].fullText = "abc"
    /\ CONFIG.PSEUDO_STREAM_CHUNK_SIZE = 2
    /\ Len(ContentChunks(r)) = 2

(***************************************************************************)
(* C2: for every text T, the empty one included, the events of an emission *)
(* that ran to its end are the content chunks, then exactly one chunk with *)
(* empty delta and finish_reason "stop", then exactly one [DONE] marker;   *)
(* in no state does any event follow a [DONE] marker.                      *)
(***************************************************************************)
C2_TerminalEvents ==
  \A r \in Reqs :
    LET q == stream[r].enqueued
        n == Len(q)
    IN  /\ \A k \in 1..n : IsDone(q[k]) => k = n
        /\ ( EmissionOver(r) /\ FaultFree(r)
             => /\ n >= 2
                /\ q[n] = DoneMarker
                /\ IsStop(q[n - 1]) /\ ~ q[n - 1].hasContent
                /\ Count(r, IsStop) = 1
                /\ Count(r, IsDone) = 1
                /\ \A k \in 1..(n - 2) : IsContent(q[k]) /\ ~ IsStop(q[k])
                /\ (stream[r].fullText = "" => n = 2) )

\* the emission of the empty text is over: the two terminal events alone
C2_Witness ==
  \E r \in Reqs :
    /\ EmissionOver(r)
    /\ FaultFree(r)
    /\ stream[r].fullText = ""
    /\ Len(stream[r].enqueued) = 2
    /\ stream[r].state = "closed"

(***************************************************************************)
(* C3: a non-OPTIONS request to /v1/models or /v1/chat/completions whose   *)
(* Authorization header is absent, is not `Bearer <secret>`, or carries    *)
(* another token is answered 401, and no upstream call is made for it.     *)
(***************************************************************************)
ProtectedPaths == {"/v1/models", "/v1/chat/completions"}
CorrectCredential(auth) == auth = "Bearer " \o API_MASTER_KEY

C3_UnauthorizedNeverReachesUpstream ==
  \A r \in Reqs :
    ( /\ pc[r] # "idle"
      /\ request[r].path \in ProtectedPaths
      /\ request[r].method # "OPTIONS"
      /\ ~ CorrectCredential(request[r].auth) )
    => /\ pc[r] = "done"
       /\ response[r].status = 401
       /\ response[r].object = "error"
       /\ upstreamCalls[r] = 0
       /\ upstream[r] = NoUpstream

\* a POST to the chat route with a wrong bearer token was answered
C3_Witness ==
  \E r \in Reqs :
    /\ request[r].path = "/v1/chat/completions"
    /\ request[r].method = "POST"
    /\ request[r].auth = "Bearer wrong-key"
    /\ response[r].status = 401

(***************************************************************************)
(* C4: an authenticated POST /v1/chat/completions whose body has an empty  *)
(* or missing `messages` array is answered 400 with code                   *)
(* invalid_request_error, and the upstream is not called for it.           *)
(***************************************************************************)
AuthenticatedChat(r) ==
  /\ request[r].path = "/v1/chat/completions"
  /\ request[r].method = "POST"
  /\ CorrectCredential(request[r].auth)

C4_EmptyMessagesRejected ==
  \A r \in Reqs :
    ( /\ AuthenticatedChat(r)
      /\ requestData[r].json = "object"
      /\ requestData[r].messages \in {"absent", "empty"} )
    => /\ pc[r] = "done"
       /\ response[r].status = 400
       /\ response[r].code = "invalid_request_error"
       /\ upstreamCalls[r] = 0
       /\ upstream[r] = NoUpstream

\* a body with `messages: []` was answered
C4_Witness ==
  \E r \in Reqs :
    /\ AuthenticatedChat(r)
    /\ requestData[r].json = "object"
    /\ requestData[r].messages = "empty"
    /\ response[r].status = 400

(***************************************************************************)
(* C5: an authenticated POST /v1/chat/completions whose body is not        *)
(* parseable as JSON is answered 400 with code invalid_request_error, and  *)
(* no upstream call is attempted for it.                                   *)
(***************************************************************************)
C5_MalformedJsonRejected ==
  \A r \in Reqs :
    ( AuthenticatedChat(r) /\ requestData[r].json = "malformed" )
    => /\ pc[r] = "done"
       /\ response[r].status = 400
       /\ response[r].object = "error"
       /\ response[r].code = "invalid_request_error"
       /\ upstreamCalls[r] = 0
       /\ upstream[r] = NoUpstream

\* an unparseable body was answered
C5_Witness ==
  \E r \in Reqs :
    /\ AuthenticatedChat(r)
    /\ requestData[r].json = "malformed"
    /\ response[r].status = 400

(***************************************************************************)
(* C6: when the upstream answers a valid chat request with a non-success   *)
(* status S, the client receives 502 with code `upstream_S` and a message  *)
(* that contains the upstream body text; no completion object and no       *)
(* stream chunk is produced.                                               *)
(***************************************************************************)
UpstreamStatusError(r) ==
  /\ ~ upstream[r].reject
  /\ upstream[r].status # 0
  /\ upstream[r].status \notin 200..299

C6_UpstreamStatusSurfaced ==
  \A r \in Reqs :
    UpstreamStatusError(r)
    => /\ response[r].status = 502
       /\ response[r].object = "error"
       /\ response[r].code = "upstream_" \o ToString(upstream[r].status)
       /\ (upstream[r].status = 500 => response[r].code = "upstream_500")
       /\ Contains(response[r].message, upstream[r].text)
       /\ ~ HasStream(r)
       /\ stream[r].enqueued = << >>

\* the upstream answered 500 with a body and the client got its answer
C6_Witness ==
  \E r \in Reqs :
    /\ upstream[r].status = 500
    /\ upstream[r].text = "boom"
    /\ response[r].status = 502
    /\ upstreamCalls[r] = 1

(***************************************************************************)
(* C7: the three upstream failure kinds (transport failure, non-success    *)
(* status, success status without a string result) are each answered 502,  *)
(* with pairwise distinct codes: two answered requests whose upstream      *)
(* failures are of different kinds never carry the same code.              *)
(***************************************************************************)
\* the kind of the upstream failure of request r ("none": no failure, or no
\* answer yet)
FailureKind(r) ==
  IF pc[r] # "done" \/ upstreamCalls[r] = 0 THEN "none"
  ELSE IF upstream[r].reject THEN "UpstreamUnreachable"
  ELSE IF upstream[r].status \notin 200..299 THEN "UpstreamStatusError"
  ELSE IF upstream[r].json # "object" \/ upstream[r].summaryType # "string"
    THEN "UpstreamContractViolation"
  ELSE "none"

C7_FailureKindsHaveDistinctCodes ==
  \A r1, r2 \in Reqs :
    ( /\ FailureKind(r1) # "none"
      /\ FailureKind(r2) # "none" )
    => /\ response[r1].status = 502
       /\ FailureKind(r1) # FailureKind(r2) => response[r1].code # response[r2].code

(***************************************************************************)
(* C8: a configured slice size of 0 or below is rejected at start-up, so   *)
(* no emission starts with chunkSize < 1, and the emission loop ends: it   *)
(* never enqueues more content slices than the text has characters.        *)
(***************************************************************************)
C8_ChunkSizeValidated ==
  \A r \in Reqs :
    HasStream(r)
    => /\ CONFIG.PSEUDO_STREAM_CHUNK_SIZE >= 1
       /\ Count(r, IsSlice) <= Len(stream[r].fullText)

(***************************************************************************)
(* C9: if a fault occurs at any point of an emission, the emitter enqueues *)
(* exactly one inline error chunk and then still the [DONE] marker before  *)
(* the stream is closed.  Stated for the emissions, with a valid slice     *)
(* size, whose error chunk was enqueued: the marker follows it.            *)
(***************************************************************************)
C9_FaultStillTerminatesWithDone ==
  \A r \in Reqs :
    ( /\ CONFIG.PSEUDO_STREAM_CHUNK_SIZE >= 1
      /\ EmissionOver(r)
      /\ stream[r].faulted
      /\ Count(r, IsError) = 1 )
    => /\ Count(r, IsDone) = 1
       /\ IsDone(stream[r].enqueued[Len(stream[r].enqueued)])

(***************************************************************************)
(* C10: once the client of a streaming response has disconnected, no chunk *)
(* is enqueued for that request and no pacing timer is awaited any more:   *)
(* the pending suspension is released rather than run to its expiry.       *)
(***************************************************************************)
C10_DisconnectStopsEmission ==
  [][ \A r \in Reqs :
        ( CONFIG.PSEUDO_STREAM_CHUNK_SIZE >= 1 /\ stream[r].disconnected )
        => /\ stream'[r].enqueued = stream[r].enqueued
           /\ ~ (pc[r] = "sleep" /\ pc'[r] = "loop") ]_vars

(***************************************************************************)
(* C11: for an authenticated non-OPTIONS request routing is by exact path  *)
(* and method: GET /v1/models and POST /v1/chat/completions reach their    *)
(* handlers, a known path with another method is answered 405, and a path  *)
(* that matches no route is answered 404.                                  *)
(***************************************************************************)
\* the paths of the routing table; "/" is the health check
RoutedPaths == {"/", "/v1/models", "/v1/chat/completions"}

C11_ExactRouting ==
  \A r \in Reqs :
    ( /\ pc[r] # "idle"
      /\ request[r].method # "OPTIONS"
      /\ CorrectCredential(request[r].auth) )
    => /\ ( request[r].path = "/v1/models" /\ request[r].method = "GET"
            => response[r].status = 200 /\ response[r].object = "list" )
       /\ ( request[r].path = "/v1/chat/completions" /\ request[r].method = "POST"
            => requestData[r] # NoData \/ pc[r] = "json" )
       /\ ( request[r].path = "/v1/models" /\ request[r].method # "GET"
            => response[r].status = 405 )
       /\ ( request[r].path = "/v1/chat/completions" /\ request[r].method # "POST"
            => response[r].status = 405 )
       /\ ( request[r].path \notin RoutedPaths => response[r].status = 404 )

(***************************************************************************)
(* C12: every failure response of the gateway uses the envelope            *)
(* {error: {message, type: "api_error", code}} and has a status in         *)
(* {400, 401, 404, 405, 502}; a body that is valid JSON but not an object  *)
(* (null) is answered 400.                                                 *)
(***************************************************************************)
FailureStatuses == {400, 401, 404, 405, 502}

C12_UniformErrorEnvelope ==
  \A r \in Reqs :
    /\ ( response[r].status >= 400
         => /\ response[r].object = "error"
            /\ response[r].type = "api_error"
            /\ response[r].code # ""
            /\ response[r].status \in FailureStatuses )
    /\ ( requestData[r].json = "null" => response[r].status = 400 )

(***************************************************************************)
(* C13: a non-OPTIONS request without the correct bearer credential is     *)
(* answered 401 whatever its path and method.                              *)
(***************************************************************************)
Unauthenticated(r) ==
  /\ pc[r] # "idle"
  /\ request[r].method # "OPTIONS"
  /\ ~ CorrectCredential(request[r].auth)

C13_Original_AuthIndependentOfRoute ==
  \A r \in Reqs : Unauthenticated(r) => response[r].status = 401

(***************************************************************************)
(* C13 as amended: under /v1/ a non-OPTIONS request without the correct    *)
(* bearer credential is answered 401 whatever its path and method (401     *)
(* takes precedence over 405) and goes no further; outside /v1/ no         *)
(* credential is asked for: "/" is answered 200 and any other path 404.    *)
(***************************************************************************)
UnderV1(path) == Len(path) >= 4 /\ SubSeq(path, 1, 4) = "/v1/"

C13_AuthPrecedesRoutingUnderV1 ==
  \A r \in Reqs :
    Unauthenticated(r)
    => /\ pc[r] = "done"
       /\ upstreamCalls[r] = 0
       /\ ( UnderV1(request[r].path)
            => response[r].status = 401 /\ response[r].code = "invalid_api_key" )
       /\ ( request[r].path = "/" => response[r].status = 200 )
       /\ ( ~ UnderV1(request[r].path) /\ request[r].path # "/"
            => response[r].status = 404 )

\* an unknown /v1/ path, which an authenticated caller sees as 405, was
\* answered 401 to a caller without credential
C13_Witness ==
  \E r \in Reqs :
    /\ request[r].path = "/v1/unknown"
    /\ request[r].method = "POST"
    /\ request[r].auth = ""
    /\ response[r].status = 401

(***************************************************************************)
(* C14: every stream created by createPseudoStream is eventually closed,   *)
(* exactly once, on every path (normal completion, a fault during          *)
(* emission, a fault while emitting the error chunk, client                *)
(* disconnection): none is left open forever, none is closed twice.        *)
(***************************************************************************)
Closed(r) == stream[r].state = "closed"

\* a closed stream stays closed and is closed by nothing again: neither
\* controller.close() nor a cancellation takes effect on it
ClosedOnce(r) ==
  Closed(r) => /\ Closed(r)'
               /\ stream'[r].closeRequested = stream[r].closeRequested
               /\ stream'[r].disconnected = stream[r].disconnected

C14_EveryStreamEventuallyClosed ==
  /\ [][ \A r \in Reqs : ClosedOnce(r) ]_vars
  /\ \A r \in Reqs : HasStream(r) ~> Closed(r)

(***************************************************************************)
(* C15: with two streaming requests in flight, under every interleaving of *)
(* their emission steps and pacing suspensions, the events of each request *)
(* are those it would emit alone: in order, built from its own upstream    *)
(* text and carrying its own id; and a request that is suspended or        *)
(* disconnected never holds the event loop, so that the other request's    *)
(* emitter can always resume.                                              *)
(***************************************************************************)
\* the slices of text T in pieces of C >= 1 characters
RECURSIVE SlicesOf(_, _)
SlicesOf(T, C) ==
  IF T = "" THEN << >>
  ELSE LET n == IF C < Len(T) THEN C ELSE Len(T)
       IN  << SubSeq(T, 1, n) >> \o SlicesOf(SubSeq(T, n + 1, Len(T)), C)

\* what request r emits when it is alone and nothing fails
EmittedAlone(r) ==
  LET slices == SlicesOf(upstream[r].summary, CONFIG.PSEUDO_STREAM_CHUNK_SIZE)
  IN  [ k \in 1..Len(slices) |->
          Chunk(r, stream[r].model, TRUE, slices[k], "null") ]
      \o << Chunk(r, stream[r].model, FALSE, "", "stop"), DoneMarker >>

\* s is an initial segment of t
IsPrefix(s, t) == Len(s) <= Len(t) /\ \A k \in 1..Len(s) : s[k] = t[k]

\* request r is suspended on its pacing timer, or its client has gone
SuspendedOrGone(r) == pc[r] = "sleep" \/ (stream[r].disconnected /\ pc[r] = "done")

Shaped(r) ==
  /\ response[r].object = "chat.completion"
  /\ response[r].content = upstream[r].summary

\* the stream of r was created over the upstream's text
Streamed(r) ==
  /\ HasStream(r)
  /\ stream[r].fullText = upstream[r].summary

\* r's upstream call has settled with a success status and a text
UpstreamResult(r) ==
  upstreamCalls[r] >= 1 /\ pc[r] # "fetch" /\ upstreamSucceeded(upstream[r])

ExpectedModel(r) ==
  IF requestData[r].model = "" THEN DEFAULT_MODEL ELSE requestData[r].model

C17_SameIdAndModelEverywhere ==
  \A r \in Reqs :
    /\ upstreamCalls[r] >= 1 => upstreamRequest[r].xRequestId = r
    /\ response[r].object \in {"chat.completion", "stream"}
         => response[r].xRequestId = r
    /\ response[r].object = "chat.completion"
         => response[r].id = r /\ response[r].model = ExpectedModel(r)
    /\ \A k \in 1..Len(stream[r].enqueued) :
         stream[r].enqueued[k].kind = "chunk"
         => /\ stream[r].enqueued[k].id = r
            /\ stream[r].enqueued[k].model = ExpectedModel(r)

\* a stream that names its model has emitted a content chunk, the stop chunk
\* and the error chunk, and the other request got a completion object with
\* the default model
C17_Witness ==
  \E r, q \in Reqs :
    /\ r # q
    /\ requestData[r].model = "gpt-4"
    /\ Count(r, IsSlice) >= 1
    /\ Count(r, IsError) = 1
    /\ \E k \in 1..Len(stream[r].enqueued) :
         IsStop(stream[r].enqueued[k]) /\ ~ IsContent(stream[r].enqueued[k])
    /\ response[q].object = "chat.completion"
    /\ requestData[q].model = ""

(***************************************************************************)
(* C18: after a successful upstream call the response is of exactly one    *)
(* kind, chosen by the request's stream flag: when it is true, a           *)
(* text/event-stream response fed by the emitter; when it is false or      *)
(* absent, one chat.completion object whose message content is the         *)
(* upstream text exactly, with finish_reason "stop" and zeroed usage;      *)
(* never both and never neither.                                           *)
(***************************************************************************)
SseResponse(r) ==
  /\ response[r].status = 200
  /\ response[r].contentType = "text/event-stream"
  /\ response[r].object = "stream"
  /\ HasStream(r)
  /\ stream[r].fullText = upstream[r].summary

CompletionObject(r) ==
  /\ response[r].status = 200
  /\ response[r].contentType = "application/json"
  /\ response[r].object = "chat.completion"
  /\ response[r].content = upstream[r].summary
  /\ response[r].finish_reason = "stop"
  /\ response[r].usage = << 0, 0, 0 >>
  /\ ~ HasStream(r)

C18_StreamFlagSelectsResponseKind ==
  \A r \in Reqs :
    UpstreamResult(r)
    => IF requestData[r].stream = "true"
         THEN SseResponse(r) /\ ~ CompletionObject(r)
              /\ response[r].content = "" /\ response[r].usage = << >>
         ELSE CompletionObject(r) /\ ~ SseResponse(r)

\* a request with stream true got the event stream, one with stream false the
\* completion object of the text "ab"
C18_Witness ==
  \E r, q \in Reqs :
    /\ UpstreamResult(r) /\ requestData[r].stream = "true"
    /\ SseResponse(r)
    /\ UpstreamResult(q) /\ requestData[q].stream = "false"
    /\ CompletionObject(q) /\ response[q].content = "ab"

(***************************************************************************)
(* C19: in every stream, on every path including the fault path, no chunk  *)
(* that carries delta.content is emitted after a chunk with finish_reason  *)
(* "stop", and a stream holds at most one chunk with finish_reason "stop". *)
(***************************************************************************)
C19_NothingAfterStop ==
  \A r \in Reqs :
    ( HasStream(r) /\ CONFIG.PSEUDO_STREAM_CHUNK_SIZE >= 1 )
    => /\ Count(r, IsStop) <= 1
       /\ \A j, k \in 1..Len(stream[r].enqueued) :
            ( j < k /\ IsStop(stream[r].enqueued[j]) )
            => ~ IsContent(stream[r].enqueued[k])

(***************************************************************************)
(* C20 as stated: at every intermediate state of an emission with slice    *)
(* size C >= 1 the cursor is a multiple of C, and the delta.content of the *)
(* content chunks emitted so far, concatenated, is the prefix of the text  *)
(* of length min(cursor, len(T)).                                          *)
(***************************************************************************)
\* the text the emission loop of r has delivered so far
Delivered(r) == Concat(SelectSeq(stream[r].enqueued, IsSlice))

\* the first n characters of r's text
PrefixOfText(r, n) == SubSeq(stream[r].fullText, 1, Min(n, Len(stream[r].fullText)))

C20_Original_DeliveredUpToCursor ==
  \A r \in Reqs :
    ( HasStream(r) /\ CONFIG.PSEUDO_STREAM_CHUNK_SIZE >= 1 )
    => /\ stream[r].i % CONFIG.PSEUDO_STREAM_CHUNK_SIZE = 0
       /\ Delivered(r) = PrefixOfText(r, stream[r].i)

(***************************************************************************)
(* C20, amended: with slice size C >= 1 the cursor is a multiple of C and  *)
(* only increases; the content delivered by the loop is the prefix of the  *)
(* text of length min(cursor, len(T)), except while the emitter is         *)
(* suspended in the pacing delay after a slice, when the cursor has not    *)
(* been advanced yet and the prefix has length min(cursor + C, len(T)).    *)
(* So a stream cut short by a fault or a disconnection has delivered a     *)
(* gap-free, overlap-free prefix of the text.                              *)
(***************************************************************************)
\* the number of characters delivered when the cursor of r reads i
DeliveredLength(r) ==
  IF pc[r] = "sleep"
    THEN stream[r].i + CONFIG.PSEUDO_STREAM_CHUNK_SIZE
    ELSE stream[r].i

CursorInvariant(r) ==
  ( HasStream(r) /\ CONFIG.PSEUDO_STREAM_CHUNK_SIZE >= 1 )
  => /\ stream[r].i % CONFIG.PSEUDO_STREAM_CHUNK_SIZE = 0
     /\ Delivered(r) = PrefixOfText(r, DeliveredLength(r))

CursorOnlyIncreases(r) ==
  ( HasStream(r) /\ CONFIG.PSEUDO_STREAM_CHUNK_SIZE >= 1 )
  => stream'[r].i >= stream[r].i

C20_DeliveredPrefixTracksCursor ==
  /\ [] ( \A r \in Reqs : CursorInvariant(r) )
  /\ [][ \A r \in Reqs : CursorOnlyIncreases(r) ]_vars

\* a stream of "abcd" in slices of one character is cut short by a disconnect
\* during the second pacing delay: the cursor reads 1, "ab" has been delivered
C20_Witness ==
  \E r \in Reqs :
    /\ CONFIG.PSEUDO_STREAM_CHUNK_SIZE = 1
    /\ stream[r].fullText = "abcd"
    /\ pc[r] = "sleep"
    /\ stream[r].disconnected
    /\ stream[r].i = 1
    /\ Delivered(r) = "ab"

====
